---- MODULE Spec2Model ----
(***************************************************************************)
(* Longitudinal vehicle model of Longitudinal_Vehicle_Model.ipynb:         *)
(* class Vehicle (__init__, reset, step) and the notebook cells driving it.*)
(*                                                                         *)
(* Numbers.  The notebook computes with IEEE doubles.  Here every real is  *)
(* a fixed-point integer: the value r is held as the integer r * Scale,    *)
(* and every product and quotient is rounded to the nearest multiple of    *)
(* 1/Scale.  All literals of the notebook (0.0002, 0.0006, 0.01, 9.81 ...) *)
(* are exact at this scale.                                                *)
(***************************************************************************)
EXTENDS Integers, Sequences, FiniteSets, TLC

Scale == 10000

Abs(n) == IF n < 0 THEN -n ELSE n

Sgn(n) == IF n < 0 THEN -1 ELSE IF n > 0 THEN 1 ELSE 0

(* p * q = quot * d + rem for naturals p, q and d > 0, computed sixteen-fold *)
(* digit by digit so that no intermediate value leaves the 32-bit range.    *)
RECURSIVE MulDivQR(_, _, _)
MulDivQR(p, q, d) ==
    IF q = 0 THEN [quot |-> 0, rem |-> 0]
    ELSE LET h  == MulDivQR(p, q \div 16, d)
             dg == q % 16
             t  == h.rem * 16 + dg * (p % d)
         IN  [quot |-> h.quot * 16 + dg * (p \div d) + t \div d,
              rem  |-> t % d]

(* p * q / d rounded to the nearest integer (ties away from zero), d # 0. *)
MulDiv(p, q, d) ==
    LET qr == MulDivQR(Abs(p), Abs(q), Abs(d))
        n  == qr.quot + (IF 2 * qr.rem >= Abs(d) THEN 1 ELSE 0)
    IN  Sgn(p) * Sgn(q) * Sgn(d) * n

(* the float product p * q *)
Mul(p, q) == MulDiv(p, q, Scale)

(* the float quotient p / q, q # 0 *)
Div(p, q) == MulDiv(p, Scale, q)

(* a literal with four decimals: Lit(9, 8100) is 9.81 *)
Lit(whole, frac) == whole * Scale + frac

(* np.sin(alpha), by its Taylor polynomial (|alpha| <= 1 rad) *)
Sin(alpha) ==
    LET a2 == Mul(alpha, alpha)
        a3 == Mul(a2, alpha)
        a5 == Mul(a3, a2)
        a7 == Mul(a5, a2)
    IN  alpha - MulDiv(a3, 1, 6) + MulDiv(a5, 1, 120) - MulDiv(a7, 1, 5040)

(* np.arctan(z), by its Taylor polynomial (|z| <= 0.1) *)
ArcTan(z) ==
    LET z2 == Mul(z, z)
        z3 == Mul(z2, z)
        z5 == Mul(z3, z2)
    IN  z - MulDiv(z3, 1, 3) + MulDiv(z5, 1, 5)

(***************************************************************************)
(* class Vehicle                                                           *)
(***************************************************************************)

(* Vehicle.__init__: the parameters, the state variables, the sample time *)
Vehicle ==
    [a_0 |-> Lit(400, 0), a_1 |-> Lit(0, 1000), a_2 |-> -Lit(0, 2),
     GR |-> Lit(0, 3500), r_e |-> Lit(0, 3000), J_e |-> Lit(10, 0),
     m |-> Lit(2000, 0), g |-> Lit(9, 8100),
     c_a |-> Lit(1, 3600), c_r1 |-> Lit(0, 100),
     c |-> Lit(10000, 0), F_max |-> Lit(10000, 0),
     x |-> 0, v |-> Lit(5, 0), a |-> 0, w_e |-> Lit(100, 0), w_e_dot |-> 0,
     sample_time |-> Lit(0, 100)]

(* the fields __init__ sets as parameters, and the sample time *)
Parameters ==
    {"a_0", "a_1", "a_2", "GR", "r_e", "J_e", "m", "g", "c_a", "c_r1",
     "c", "F_max", "sample_time"}

(* the fields __init__ and reset set as state variables *)
StateFields == {"x", "v", "a", "w_e", "w_e_dot"}

reset_partial(self) ==
    [self EXCEPT !.x = 0, !.v = Lit(5, 0), !.w_e = Lit(100, 0)]

reset_with_sample_time(self) ==
    [self EXCEPT !.x = 0, !.v = Lit(5, 0), !.a = 0,
                 !.w_e = Lit(100, 0), !.w_e_dot = 0, !.sample_time = 0]

(* Vehicle.reset *)
reset(self) ==
    [self EXCEPT !.x = 0, !.v = Lit(5, 0), !.a = 0,
                 !.w_e = Lit(100, 0), !.w_e_dot = 0]

(* f_load = f_aero + r_x + f_g *)
f_load(self, alpha) ==
    LET f_aero == Mul(self.c_a, Mul(self.v, self.v))
        r_x    == Mul(self.c_r1, self.v)
        f_g    == Mul(Mul(self.m, self.g), Sin(alpha))
    IN  f_aero + r_x + f_g

T_e_clamped(self, throttle) ==
    Mul(IF throttle < 0 THEN 0
        ELSE IF throttle > Lit(1, 0) THEN Lit(1, 0) ELSE throttle,
        self.a_0 + Mul(self.a_1, self.w_e)
                 + Mul(self.a_2, Mul(self.w_e, self.w_e)))

(* T_e = throttle*(a_0 + a_1*w_e + a_2*w_e**2) *)
T_e(self, throttle) ==
    Mul(throttle, self.a_0 + Mul(self.a_1, self.w_e)
                           + Mul(self.a_2, Mul(self.w_e, self.w_e)))

(* the engine acceleration stored by step *)
EngineAccel(self, throttle, alpha) ==
    Div(T_e(self, throttle)
          - Mul(Mul(self.GR, self.r_e), f_load(self, alpha)), self.J_e)

(* the numerator of the slip ratio: w_w*r_e - v, with w_w = GR*w_e *)
SlipNum(self) == Mul(Mul(self.GR, self.w_e), self.r_e) - self.v

(* A float that may be infinite or not a number: kind is "finite", "inf", *)
(* "-inf" or "nan"; val is the fixed-point value of a finite one.          *)
Finite(n) == [kind |-> "finite", val |-> n]

NonFinite(k) == [kind |-> k, val |-> 0]

(* Largest magnitude of a slip ratio that is held exactly; a finite ratio  *)
(* beyond it is held as this magnitude (only its comparison with 1 is ever *)
(* used).                                                                  *)
SlipCap == Lit(100, 0)

(* s = (w_w*r_e - v)/v on numpy scalars: a zero divisor gives inf or nan *)
SlipRatio(self) ==
    LET num == SlipNum(self)
    IN  IF self.v = 0
        THEN IF num = 0 THEN NonFinite("nan")
             ELSE IF num > 0 THEN NonFinite("inf") ELSE NonFinite("-inf")
        ELSE IF Abs(num) >= 100 * Abs(self.v)
             THEN Finite(Sgn(num) * Sgn(self.v) * SlipCap)
             ELSE Finite(Div(num, self.v))

(* abs(s) < 1, which is False for inf and for nan *)
AbsLessThanOne(s) == s.kind = "finite" /\ Abs(s.val) < Lit(1, 0)

TireForceSigned(self, s) ==
    IF AbsLessThanOne(s) THEN Mul(self.c, s.val)
    ELSE IF s.kind = "-inf" \/ s.val < 0 THEN -self.F_max ELSE self.F_max

TireForceDropped(self, s) ==
    IF AbsLessThanOne(s) THEN Mul(self.c, s.val) ELSE 0

(* if abs(s) < 1: F_x = c*s  else: F_x = F_max *)
TireForce(self, s) ==
    IF AbsLessThanOne(s) THEN Mul(self.c, s.val) ELSE self.F_max

(* self.w_e_dot=(T_e-self.GR*self.r_e*f_load)/self.J_e *)
assign_w_e_dot(self, throttle, alpha) ==
    [self EXCEPT !.w_e_dot = EngineAccel(self, throttle, alpha)]

(* self.a=(F_x-f_load)/self.m, with F_x from the fields as they stand *)
assign_a(self, load) ==
    [self EXCEPT !.a = Div(TireForce(self, SlipRatio(self)) - load, self.m)]

(* self.w_e+=self.w_e_dot*self.sample_time *)
update_w_e(self) ==
    [self EXCEPT !.w_e = @ + Mul(self.w_e_dot, self.sample_time)]

(* self.v+=self.a*self.sample_time *)
update_v(self) ==
    [self EXCEPT !.v = @ + Mul(self.a, self.sample_time)]

(* self.x+=vel*self.sample_time-0.5*self.a*self.sample_time**2 *)
update_x_with(self, vel) ==
    [self EXCEPT !.x = @ + Mul(vel, self.sample_time)
                        - Mul(Mul(Lit(0, 5000), self.a),
                              Mul(self.sample_time, self.sample_time))]

(* self.x+=self.v*self.sample_time-0.5*self.a*self.sample_time**2 *)
update_x(self) == update_x_with(self, self.v)

step_x_from_old_v(self, throttle, alpha) ==
    update_x_with(
      update_v(update_w_e(
        assign_a(assign_w_e_dot(self, throttle, alpha), f_load(self, alpha)))),
      self.v)

step_integrate_first(self, throttle, alpha) ==
    update_x(update_v(
      assign_a(update_w_e(assign_w_e_dot(self, throttle, alpha)),
               f_load(self, alpha))))

(* Vehicle.step when the slip-ratio division does not raise: f_load is    *)
(* computed from the fields before the call, then the assignments run in   *)
(* the order of the source, each reading the fields as the one before it   *)
(* left them.                                                              *)
step(self, throttle, alpha) ==
    update_x(update_v(update_w_e(
      assign_a(assign_w_e_dot(self, throttle, alpha), f_load(self, alpha)))))

(* Vehicle.step, when the division raises ZeroDivisionError: only the     *)
(* assignment to w_e_dot has run.                                          *)
step_raised(self, throttle, alpha) ==
    [self EXCEPT !.w_e_dot = EngineAccel(self, throttle, alpha)]

(***************************************************************************)
(* State                                                                   *)
(***************************************************************************)
VARIABLES
    model,      \* the Vehicle instance `model`: parameters and state fields
    scalars,    \* "python" while v and w_e hold the ints of __init__/reset,
                \* "numpy" once a step has stored numpy.float64 values
    err,        \* what the last call signalled: "none", "RuntimeWarning"
                \* (numpy division by zero), "ZeroDivisionError", "NameError"
    op,         \* the last operation on the model: "init", "reset", "step"
    calls,      \* number of step calls made so far
    throttle,   \* arguments of the last step call
    alpha,
    s,          \* the locals s and F_x of the last step call that
    F_x,        \* assigned them
    pc,         \* position of the running notebook cell
    i,          \* loop index of the running cell
    t_data,     \* the arrays of the slope cell, indexed from 0
    x_data,
    v1_data,
    v_data,     \* the array of the constant-throttle cell, indexed from 0
    data,       \* the rows handed to np.savetxt
    twin        \* a second Vehicle instance: its fields (veh), the kind of
                \* its scalars and what its last call signalled

vars == <<model, scalars, err, op, calls, throttle, alpha, s, F_x,
          pc, i, t_data, x_data, v1_data, v_data, data, twin>>

cellVars == <<pc, i, t_data, x_data, v1_data, v_data, data>>

modelVars == <<model, scalars, err, op, calls, throttle, alpha, s, F_x>>

(* number of step calls a free caller makes *)
MaxCalls == 3

(* throttle and incline arguments a free caller passes *)
Throttles == {-Lit(0, 5000), 0, Lit(0, 2000), Lit(1, 0), Lit(1, 5000)}

Inclines == {-Lit(0, 2000), 0, ArcTan(Div(Lit(3, 0), Lit(60, 0)))}

(* the division s = (...)/self.v raises: both operands are Python scalars *)
Raises(self, kind) == self.v = 0 /\ kind = "python"

(* model.step(th, al) *)
Call(th, al) ==
    /\ throttle' = th
    /\ alpha' = al
    /\ calls' = calls + 1
    /\ op' = "step"
    /\ IF Raises(model, scalars)
       THEN /\ model' = step_raised(model, th, al)
            /\ scalars' = scalars
            /\ err' = "ZeroDivisionError"
            /\ UNCHANGED <<s, F_x>>
       ELSE /\ model' = step(model, th, al)
            /\ scalars' = "numpy"
            /\ err' = IF model.v = 0 THEN "RuntimeWarning" ELSE "none"
            /\ s' = SlipRatio(model)
            /\ F_x' = TireForce(model, s')

(* model.reset() *)
CallReset ==
    /\ model' = reset(model)
    /\ scalars' = "python"
    /\ op' = "reset"
    /\ UNCHANGED <<err, calls, throttle, alpha, s, F_x>>

(* a second instance as Vehicle() builds it *)
TwinVehicle == [veh |-> Vehicle, scalars |-> "python", err |-> "none"]

(***************************************************************************)
(* Spec: a Vehicle driven by a free caller                                 *)
(***************************************************************************)
Init ==
    /\ model = Vehicle
    /\ scalars = "python"
    /\ err = "none"
    /\ op = "init"
    /\ calls = 0
    /\ throttle = 0
    /\ alpha = 0
    /\ s = NonFinite("unset")
    /\ F_x = 0
    /\ pc = "idle"
    /\ i = 0
    /\ t_data = <<>>
    /\ x_data = <<>>
    /\ v1_data = <<>>
    /\ v_data = <<>>
    /\ data = <<>>
    /\ twin = TwinVehicle

Reset ==
    /\ pc = "idle"
    /\ CallReset
    /\ UNCHANGED cellVars
    /\ UNCHANGED twin

Step ==
    /\ pc = "idle"
    /\ calls < MaxCalls
    /\ err # "ZeroDivisionError"
    /\ \E th \in Throttles, al \in Inclines : Call(th, al)
    /\ UNCHANGED cellVars
    /\ UNCHANGED twin

Next == Reset \/ Step

Spec == Init /\ [][Next]_vars

(***************************************************************************)
(* SpecFn: step applied to a Vehicle in any state earlier calls can leave: *)
(* the fields hold numpy scalars, v and w_e range over values that put the *)
(* slip ratio below -1, at -1, inside (-1, 1), at 1 and above 1, and v = 0. *)
(***************************************************************************)

(* velocities and engine speeds of the states step is applied to *)
TestV == {0, Lit(0, 5000), Lit(1, 500), Lit(5, 0), Lit(10, 0), Lit(20, 0)}

TestW == {-Lit(10, 0), 0, Lit(0, 10), Lit(10, 0), Lit(19, 9990),
          Lit(20, 0), Lit(20, 10), Lit(100, 0)}

InitFn ==
    /\ model \in {[Vehicle EXCEPT !.v = vv, !.w_e = ww] :
                     vv \in TestV, ww \in TestW}
    /\ scalars = "numpy"
    /\ err = "none"
    /\ op = "init"
    /\ calls = 0
    /\ throttle = 0
    /\ alpha = 0
    /\ s = NonFinite("unset")
    /\ F_x = 0
    /\ pc = "idle"
    /\ i = 0
    /\ t_data = <<>>
    /\ x_data = <<>>
    /\ v1_data = <<>>
    /\ v_data = <<>>
    /\ data = <<>>
    /\ twin = TwinVehicle

StepFn ==
    /\ calls < MaxCalls
    /\ \E th \in {0, Lit(0, 2000)}, al \in {0, Lit(0, 500)} : Call(th, al)
    /\ UNCHANGED cellVars
    /\ UNCHANGED twin

NextFn == StepFn

SpecFn == InitFn /\ [][NextFn]_vars

(***************************************************************************)
(* SpecTwin: two Vehicle instances, model and twin, built alike and given  *)
(* the same calls with the same arguments, model first.                    *)
(***************************************************************************)
InitTwin ==
    /\ model = Vehicle
    /\ scalars = "python"
    /\ err = "none"
    /\ op = "init"
    /\ calls = 0
    /\ throttle = 0
    /\ alpha = 0
    /\ s = NonFinite("unset")
    /\ F_x = 0
    /\ pc = "twin"
    /\ i = 0
    /\ t_data = <<>>
    /\ x_data = <<>>
    /\ v1_data = <<>>
    /\ v_data = <<>>
    /\ data = <<>>
    /\ twin = TwinVehicle

TwinCallSharedEngine(th, al) ==
    twin' = [veh |-> step([twin.veh EXCEPT !.w_e = model'.w_e], th, al),
             scalars |-> "numpy",
             err |-> IF twin.veh.v = 0 THEN "RuntimeWarning" ELSE "none"]

(* step(th, al) on the second instance: it reads and writes the fields of *)
(* that instance only                                                      *)
TwinCall(th, al) ==
    twin' = IF Raises(twin.veh, twin.scalars)
            THEN [veh |-> step_raised(twin.veh, th, al),
                  scalars |-> twin.scalars,
                  err |-> "ZeroDivisionError"]
            ELSE [veh |-> step(twin.veh, th, al),
                  scalars |-> "numpy",
                  err |-> IF twin.veh.v = 0 THEN "RuntimeWarning" ELSE "none"]

(* reset() on both instances *)
TwinReset ==
    /\ pc = "twin"
    /\ CallReset
    /\ twin' = [twin EXCEPT !.veh = reset(@), !.scalars = "python"]
    /\ UNCHANGED cellVars

(* step(th, al) on both instances *)
TwinStep ==
    /\ pc = "twin"
    /\ calls < MaxCalls
    /\ err # "ZeroDivisionError"
    /\ \E th \in Throttles, al \in Inclines :
          Call(th, al) /\ TwinCall(th, al)
    /\ UNCHANGED cellVars

NextTwin == TwinReset \/ TwinStep

SpecTwin == InitTwin /\ [][NextTwin]_vars

(***************************************************************************)
(* SpecHold: a caller that resets the Vehicle and then steps it with one   *)
(* throttle and one incline held for the whole run.                        *)
(***************************************************************************)

(* number of step calls of a held run *)
MaxHold == 100

(* the inputs a held run can use: throttle 0 or 1, level ground or a      *)
(* climb of 1 rad                                                          *)
HeldThrottles == {0, Lit(1, 0)}

HeldInclines == {0, Lit(1, 0)}

InitHold ==
    /\ model = Vehicle
    /\ scalars = "python"
    /\ err = "none"
    /\ op = "init"
    /\ calls = 0
    /\ throttle = 0
    /\ alpha = 0
    /\ s = NonFinite("unset")
    /\ F_x = 0
    /\ pc = "hold_reset"
    /\ i = 0
    /\ t_data = <<>>
    /\ x_data = <<>>
    /\ v1_data = <<>>
    /\ v_data = <<>>
    /\ data = <<>>
    /\ twin = TwinVehicle

(* model.reset() *)
HoldReset ==
    /\ pc = "hold_reset"
    /\ CallReset
    /\ pc' = "hold"
    /\ UNCHANGED <<i, t_data, x_data, v1_data, v_data, data>>
    /\ UNCHANGED twin

(* model.step(th, al), with the arguments of the call before it if any *)
HoldStep ==
    /\ pc = "hold"
    /\ calls < MaxHold
    /\ err # "ZeroDivisionError"
    /\ \E th \in HeldThrottles, al \in HeldInclines :
          /\ calls > 0 => (th = throttle /\ al = alpha)
          /\ Call(th, al)
    /\ UNCHANGED cellVars
    /\ UNCHANGED twin

NextHold == HoldReset \/ HoldStep

SpecHold == InitHold /\ [][NextHold]_vars

(***************************************************************************)
(* The notebook's globals.  A numpy array is held as a sequence: element k *)
(* of the array (k from 0) is element k + 1 of the sequence.  x_data and   *)
(* v1_data hold the elements written so far; the elements after them are   *)
(* still the zeros of np.zeros_like.                                       *)
(***************************************************************************)
sample_time == Lit(0, 100)

time_end == Lit(20, 0)

(* t_data.shape[0], the length of np.arange(0, time_end, sample_time) *)
shape0 == time_end \div sample_time

(* np.arange(0, time_end, sample_time); ti_data keeps this value *)
arange == [k \in 1 .. shape0 |-> (k - 1) * sample_time]

(* element k of an array, k from 0 *)
At(arr, k) == IF k < Len(arr) THEN arr[k + 1] ELSE 0

alpha1 == ArcTan(Div(Lit(3, 0), Lit(60, 0)))

alpha2 == ArcTan(Lit(0, 1000))

(***************************************************************************)
(* SpecConst: the constant-throttle cell.  It builds a new Vehicle and an  *)
(* arange of 100 s that it never writes, records model.v in v_data and     *)
(* steps with throttle 0.2 on level ground.  v_data holds the elements     *)
(* written so far.                                                         *)
(***************************************************************************)
time_end_const == Lit(100, 0)

(* t_data.shape[0] in the constant-throttle cell *)
shape0_const == time_end_const \div sample_time

(* the state when the cell has run model = Vehicle() and made its arrays *)
InitConst ==
    /\ model = Vehicle
    /\ scalars = "python"
    /\ err = "none"
    /\ op = "init"
    /\ calls = 0
    /\ throttle = 0
    /\ alpha = 0
    /\ s = NonFinite("unset")
    /\ F_x = 0
    /\ pc = "const_loop"
    /\ i = 0
    /\ t_data = <<>>
    /\ x_data = <<>>
    /\ v1_data = <<>>
    /\ v_data = <<>>
    /\ data = <<>>
    /\ twin = TwinVehicle

(* v_data[i] = model.v ; model.step(throttle, alpha) *)
ConstStep ==
    /\ pc = "const_loop"
    /\ i < shape0_const
    /\ err # "ZeroDivisionError"
    /\ v_data' = Append(v_data, model.v)
    /\ Call(Lit(0, 2000), 0)
    /\ i' = i + 1
    /\ UNCHANGED <<pc, t_data, x_data, v1_data, data>>
    /\ UNCHANGED twin

(* plt.plot(t_data, v_data) ; plt.show() *)
ConstPlot ==
    /\ pc = "const_loop"
    /\ i = shape0_const
    /\ pc' = "plotted"
    /\ UNCHANGED <<modelVars, i, t_data, x_data, v1_data, v_data, data>>
    /\ UNCHANGED twin

NextConst == ConstStep \/ ConstPlot

SpecConst == InitConst /\ [][NextConst]_vars

(***************************************************************************)
(* SpecZero: the last cell, model.step(0, 0) in a loop.  The cell reads    *)
(* only the length of t_data, so the arrays of the slope cell are left     *)
(* empty here.                                                             *)
(***************************************************************************)
InitZero ==
    /\ model = Vehicle
    /\ scalars = "python"
    /\ err = "none"
    /\ op = "init"
    /\ calls = 0
    /\ throttle = 0
    /\ alpha = 0
    /\ s = NonFinite("unset")
    /\ F_x = 0
    /\ pc = "zero_reset"
    /\ i = 0
    /\ t_data = <<>>
    /\ x_data = <<>>
    /\ v1_data = <<>>
    /\ v_data = <<>>
    /\ data = <<>>
    /\ twin = TwinVehicle

ZeroReset ==
    /\ pc = "zero_reset"
    /\ CallReset
    /\ pc' = "zero_loop"
    /\ i' = 0
    /\ UNCHANGED <<t_data, x_data, v1_data, v_data, data>>
    /\ UNCHANGED twin

ZeroStep ==
    /\ pc = "zero_loop"
    /\ i < shape0
    /\ err # "ZeroDivisionError"
    /\ Call(0, 0)
    /\ i' = i + 1
    /\ UNCHANGED <<pc, t_data, x_data, v1_data, v_data, data>>
    /\ UNCHANGED twin

(* plt.plot(x_data, y_data): y_data is not defined anywhere *)
ZeroPlot ==
    /\ pc = "zero_loop"
    /\ i = shape0
    /\ pc' = "raised"
    /\ err' = "NameError"
    /\ UNCHANGED <<model, scalars, op, calls, throttle, alpha, s, F_x,
                   i, t_data, x_data, v1_data, v_data, data>>
    /\ UNCHANGED twin

NextZero == ZeroReset \/ ZeroStep \/ ZeroPlot

SpecZero == InitZero /\ [][NextZero]_vars

(***************************************************************************)
(* SpecSlope: the slope cell and the export cell                           *)
(***************************************************************************)

(* the state when the slope cell has created its arrays *)
InitSlope ==
    /\ model = Vehicle
    /\ scalars = "python"
    /\ err = "none"
    /\ op = "init"
    /\ calls = 0
    /\ throttle = 0
    /\ alpha = 0
    /\ s = NonFinite("unset")
    /\ F_x = 0
    /\ pc = "t0"
    /\ i = 0
    /\ t_data = arange
    /\ x_data = <<>>
    /\ v1_data = <<>>
    /\ v_data = <<>>
    /\ data = <<>>
    /\ twin = TwinVehicle

(* t_data[0]=0.2 *)
SetT0 ==
    /\ pc = "t0"
    /\ t_data' = [t_data EXCEPT ![1] = Lit(0, 2000)]
    /\ pc' = "ramp_up"
    /\ i' = 1
    /\ UNCHANGED <<modelVars, x_data, v1_data, v_data, data>>
    /\ UNCHANGED twin

RampUpByThousandth ==
    /\ pc = "ramp_up"
    /\ i < 500
    /\ t_data' = [t_data EXCEPT ![i + 1] = At(t_data, i - 1) + Lit(0, 10)]
    /\ i' = i + 1
    /\ UNCHANGED <<modelVars, pc, x_data, v1_data, v_data, data>>
    /\ UNCHANGED twin

(* for x in range(1,500): t_data[x]=t_data[x-1]+0.0006 *)
RampUp ==
    /\ pc = "ramp_up"
    /\ i < 500
    /\ t_data' = [t_data EXCEPT ![i + 1] = At(t_data, i - 1) + Lit(0, 6)]
    /\ i' = i + 1
    /\ UNCHANGED <<modelVars, pc, x_data, v1_data, v_data, data>>
    /\ UNCHANGED twin

(* t_data[500:1501]=0.5 *)
Hold ==
    /\ pc = "ramp_up"
    /\ i = 500
    /\ t_data' = [k \in DOMAIN t_data |->
                     IF 500 <= k - 1 /\ k - 1 < 1501
                     THEN Lit(0, 5000) ELSE t_data[k]]
    /\ pc' = "ramp_down"
    /\ i' = 1501
    /\ UNCHANGED <<modelVars, x_data, v1_data, v_data, data>>
    /\ UNCHANGED twin

(* for y in range(1501,2000): t_data[y]=t_data[y-1]-0.001 *)
RampDown ==
    /\ pc = "ramp_down"
    /\ i < 2000
    /\ t_data' = [t_data EXCEPT ![i + 1] = At(t_data, i - 1) - Lit(0, 10)]
    /\ i' = i + 1
    /\ UNCHANGED <<modelVars, pc, x_data, v1_data, v_data, data>>
    /\ UNCHANGED twin

(* model.reset() *)
SlopeReset ==
    /\ pc = "ramp_down"
    /\ i = 2000
    /\ CallReset
    /\ pc' = "drive"
    /\ i' = 0
    /\ UNCHANGED <<t_data, x_data, v1_data, v_data, data>>
    /\ UNCHANGED twin

InclineNoGrade(xx) == 0

InclineSwapped(xx) ==
    IF xx < Lit(60, 0) THEN alpha2
    ELSE IF xx < Lit(150, 0) THEN alpha1
    ELSE 0

(* the incline the loop body passes to step for the position model.x *)
InclineAt(xx) ==
    IF xx < Lit(60, 0) THEN alpha1
    ELSE IF xx < Lit(150, 0) THEN alpha2
    ELSE 0

DriveRecordingAfter ==
    /\ pc = "drive"
    /\ i < shape0
    /\ err # "ZeroDivisionError"
    /\ Call(At(t_data, i), InclineAt(model.x))
    /\ v1_data' = Append(v1_data, model'.v)
    /\ x_data' = Append(x_data, model'.x)
    /\ i' = i + 1
    /\ UNCHANGED <<pc, t_data, v_data, data>>
    /\ UNCHANGED twin

(* one pass of the loop body *)
Drive ==
    /\ pc = "drive"
    /\ i < shape0
    /\ err # "ZeroDivisionError"
    /\ v1_data' = Append(v1_data, model.v)
    /\ x_data' = Append(x_data, model.x)
    /\ Call(At(t_data, i), InclineAt(model.x))
    /\ i' = i + 1
    /\ UNCHANGED <<pc, t_data, v_data, data>>
    /\ UNCHANGED twin

(* np.vstack([first, second]).T : row k is <<first[k], second[k]>> *)
vstackT(first, second) ==
    [k \in DOMAIN first |-> <<first[k], At(second, k - 1)>>]

(* data = np.vstack([t_data, x_data]).T ; np.savetxt('xdata.txt', data) *)
Save ==
    /\ pc = "drive"
    /\ i = shape0
    /\ data' = vstackT(t_data, x_data)
    /\ pc' = "saved"
    /\ UNCHANGED <<modelVars, i, t_data, x_data, v1_data, v_data>>
    /\ UNCHANGED twin

NextSlope ==
    SetT0 \/ RampUp \/ Hold \/ RampDown \/ SlopeReset \/ Drive \/ Save

SpecSlope == InitSlope /\ [][NextSlope]_vars

(***************************************************************************)
(* Properties                                                              *)
(***************************************************************************)

(* a step call that ran to its end has just been made *)
Stepped == calls' = calls + 1 /\ err' # "ZeroDivisionError"

(* 0.5*a*sample_time**2 for the vehicle state st *)
HalfADt2(st) ==
    Mul(Mul(Lit(0, 5000), st.a), Mul(st.sample_time, st.sample_time))

(* C1 as stated: step advances the position with the velocity held before *)
(* the call, x_new = x_old + v_old*dt - 0.5*a*dt^2.                         *)
C1_PositionFromOldVelocity ==
    [][Stepped =>
         model'.x = model.x + Mul(model.v, model.sample_time)
                            - HalfADt2(model')]_vars

(* C1 amended: step advances the position with the velocity it has just   *)
(* updated, x_new = x_old + v_new*dt - 0.5*a*dt^2 with v_new = v_old+a*dt. *)
C1_PositionFromNewVelocity ==
    [][Stepped =>
         /\ model'.v = model.v + Mul(model'.a, model.sample_time)
         /\ model'.x = model.x + Mul(model'.v, model.sample_time)
                               - HalfADt2(model')]_vars

(* a step whose a*dt*dt is not zero, so that the two forms differ *)
C1_Witness ==
    /\ op = "step"
    /\ Mul(Mul(model.a, model.sample_time), model.sample_time) # 0

(* C2 as stated: one step(0, 0) from the default state leaves a < 0 and   *)
(* v < 5.                                                                  *)
C2_FirstZeroStepDecelerates ==
    (pc = "zero_loop" /\ i = 1) => (model.a < 0 /\ model.v < Lit(5, 0))

(* C2 amended: one step(0, 0) from the default state leaves a > 0 and     *)
(* v > 5: the slip ratio 1.1 puts the tire force at F_max.                 *)
C2_FirstZeroStepAccelerates ==
    (pc = "zero_loop" /\ i = 1) =>
        /\ s = Finite(Lit(1, 1000))
        /\ F_x = model.F_max
        /\ model.a > 0
        /\ model.v > Lit(5, 0)

C2_Witness ==
    /\ pc = "zero_loop" /\ i = 1 /\ op = "step"
    /\ throttle = 0 /\ alpha = 0 /\ model.x > 0

(* a pass of the zero-input loop *)
ZeroStepped == pc = "zero_loop" /\ i' = i + 1

(* C3 as stated: under repeated step(0, 0) from the default state every   *)
(* call leaves v less than or equal to its value before the call.          *)
C3_VelocityNeverRises ==
    [][ZeroStepped => model'.v <= model.v]_vars

(* C3 amended: the first call raises v, and once a call has computed an   *)
(* acceleration a <= 0 every later call leaves v less than or equal to its *)
(* value before that call.                                                 *)
C3_VelocityFallsAfterPeak ==
    [][ZeroStepped =>
         /\ (i = 0 => model'.v > model.v)
         /\ (i >= 1 /\ model.a <= 0 => model'.v <= model.v /\ model'.a <= 0)
      ]_vars

(* the run is past its peak: calls have lowered v below its earlier value *)
C3_Witness ==
    /\ pc = "zero_loop" /\ i > 1000
    /\ model.a < 0
    /\ model.v > Lit(5, 0)

(* C4: whatever calls came before, reset leaves the five state fields at  *)
(* (0, 5, 0, 100, 0), the whole object equal to a fresh Vehicle, and a     *)
(* reset right after a reset changes nothing.                              *)
C4_ResetRestoresDefaults ==
    [][op' = "reset" =>
         /\ model' = Vehicle
         /\ <<model'.x, model'.v, model'.a, model'.w_e, model'.w_e_dot>>
               = <<0, Lit(5, 0), 0, Lit(100, 0), 0>>
         /\ (op = "reset" => model' = model)
         /\ reset(model') = model']_vars

(* a reset made after the largest number of step calls *)
C4_Witness ==
    /\ op = "reset" /\ calls >= MaxCalls
    /\ model = Vehicle

(* C5 as stated: a step call made when v = 0 meets no division by zero:   *)
(* the division is guarded and the call signals no arithmetic fault.       *)
C5_ZeroVelocityGuarded ==
    op = "step" => (err = "none" /\ s.kind = "finite")

(* C6: for v # 0 the tire force of a step is c*s when |s| < 1 and +F_max  *)
(* otherwise, s being (GR*w_e*r_e - v)/v of the values before the call.    *)
C6_TireForceLaw ==
    [][(Stepped /\ model.v # 0) =>
         LET num == Mul(Mul(model.GR, model.w_e), model.r_e) - model.v
         IN  /\ s'.kind = "finite"
             /\ (Abs(num) < 100 * Abs(model.v) => s'.val = Div(num, model.v))
             /\ (Abs(s'.val) < Lit(1, 0) => F_x' = Mul(model.c, s'.val))
             /\ (s'.val >= Lit(1, 0) => F_x' = model.F_max)
             /\ (s'.val <= -Lit(1, 0) => F_x' = model.F_max)
             /\ model'.a = Div(F_x' - f_load(model, alpha'), model.m)]_vars

(* a step at s = -1 exactly, which took +F_max *)
C6_Witness ==
    /\ op = "step"
    /\ s = Finite(-Lit(1, 0))
    /\ F_x = model.F_max

(* C7 as stated: for |s| < 1 the linear force differs from F_max by an    *)
(* amount that vanishes with 1 - |s|, on both sides.                       *)
C7_ContinuousBothSides ==
    (op = "step" /\ AbsLessThanOne(s)) =>
        Abs(F_x - model.F_max) <= Mul(model.c, Lit(1, 0) - Abs(s.val))

(* C7 amended: the force is continuous at s = +1 only.  For 0 <= s < 1 it *)
(* differs from the clamped value at s = 1 by c*(1 - s); for -1 < s < 0 it *)
(* differs from the clamped value at s = -1 by F_max + c*|s|, which tends  *)
(* to 2*F_max.                                                             *)
C7_ContinuousAtPlusOneOnly ==
    (op = "step" /\ AbsLessThanOne(s)) =>
        /\ s.val >= 0 =>
             TireForce(model, Finite(Lit(1, 0))) - F_x
                = Mul(model.c, Lit(1, 0) - s.val)
        /\ s.val < 0 =>
             TireForce(model, Finite(-Lit(1, 0))) - F_x
                = model.F_max + Mul(model.c, -s.val)

(* a step whose slip ratio is within 0.001 above -1 *)
C7_Witness ==
    /\ op = "step"
    /\ AbsLessThanOne(s)
    /\ s.val < 0
    /\ Lit(1, 0) + s.val <= 10

LastIndex == Len(x_data) - 1

LastX == x_data[Len(x_data)]

(* C9 as stated: the recorded position first reaches 60 m at a sample     *)
(* time between 14.5 s and 15.5 s.                                         *)
C9_Reaches60NearFifteen ==
    Len(x_data) > 0 =>
        /\ LastX >= Lit(60, 0) => LastIndex >= 1450
        /\ LastIndex = 1550 => LastX >= Lit(60, 0)

(* C9 amended: the recorded position first reaches 150 m, the end of the  *)
(* ramp, at a sample time between 14.5 s and 15.5 s; it first reaches 60 m *)
(* between 6 s and 7.5 s.                                                  *)
C9_Reaches150NearFifteen ==
    Len(x_data) > 0 =>
        /\ LastX >= Lit(150, 0) => LastIndex >= 1450
        /\ LastIndex = 1550 => LastX >= Lit(150, 0)
        /\ LastX >= Lit(60, 0) => LastIndex >= 600
        /\ LastIndex = 750 => LastX >= Lit(60, 0)

(* the loop has recorded a position beyond the ramp *)
C9_Witness ==
    /\ pc = "drive"
    /\ Len(x_data) > 0
    /\ LastX >= Lit(150, 0)
    /\ LastIndex <= 1550

(* C10 as stated: row k of the saved data is (k*dt, position of sample k), *)
(* one row per sample.                                                     *)
C10_RowsAreTimeAndPosition ==
    pc = "saved" =>
        /\ Len(data) = shape0
        /\ \A k \in 1 .. Len(data) :
              data[k] = <<(k - 1) * sample_time, At(x_data, k - 1)>>

(* element k of t_data has received its throttle value *)
ThrottleWritten(k) ==
    \/ pc \in {"drive", "saved"}
    \/ pc \in {"ramp_up", "ramp_down"} /\ k < i

(* C11 as stated: the throttle samples rise from 0.2 to 0.5 during the    *)
(* first 3 s, are 0.5 for the next 10 s (3 s to 13 s), and fall to exactly *)
(* 0 at the end of a 5 s ramp-down (18 s).                                 *)
C11_ThreeSecondRampToZero ==
    /\ ThrottleWritten(0) => At(t_data, 0) = Lit(0, 2000)
    /\ \A k \in 300 .. 1300 :
          ThrottleWritten(k) => At(t_data, k) = Lit(0, 5000)
    /\ ThrottleWritten(1800) => At(t_data, 1800) = 0

(* C11 amended: the throttle samples rise from 0.2 by 0.0006 per sample   *)
(* during the first 5 s (0.4994 at sample 499), are 0.5 from sample 500 to *)
(* sample 1500 (5 s to 15 s), and fall by 0.001 per sample to 0.001 at the *)
(* last sample (19.99 s); no sample is 0.                                  *)
C11_FiveSecondRampToThousandth ==
    \A k \in 0 .. shape0 - 1 :
        ThrottleWritten(k) =>
            /\ k < 500 => At(t_data, k) = Lit(0, 2000) + k * Lit(0, 6)
            /\ (500 <= k /\ k <= 1500) => At(t_data, k) = Lit(0, 5000)
            /\ k > 1500 =>
                  At(t_data, k) = Lit(0, 5000) - (k - 1500) * Lit(0, 10)
            /\ At(t_data, k) > 0

(* the whole profile has been written *)
C11_Witness ==
    /\ pc = "drive" /\ i = 0
    /\ At(t_data, 499) = Lit(0, 4994)
    /\ At(t_data, 1500) = Lit(0, 5000)
    /\ At(t_data, 1999) = Lit(0, 10)

(* a pass of the constant-throttle loop *)
ConstStepped == pc = "const_loop" /\ i' = i + 1

(* C12: with throttle 0.2 on level ground from the default state the      *)
(* velocity converges over the 10000 steps.  No step lowers v; from step   *)
(* 4000 on every step changes v by less than 0.001; and from step 9950 on  *)
(* v stays within 0.001 of one value, the velocity recorded as sample 9950.*)
C12_VelocityConverges ==
    [][ConstStepped =>
         /\ throttle' = Lit(0, 2000) /\ alpha' = 0
         /\ model'.v >= model.v
         /\ i >= 4000 => model'.v - model.v < Lit(0, 10)
         /\ i >= 9950 => model'.v - At(v_data', 9950) < Lit(0, 10)]_vars

(* a step past step 4000 that still raised v, by less than 0.001 *)
C12_Witness ==
    /\ pc = "const_loop" /\ i > 4000 /\ op = "step"
    /\ model.v > At(v_data, i - 1)
    /\ model.v - At(v_data, i - 1) < Lit(0, 10)
    /\ model.v > Lit(22, 0)

(* C13 as stated: after any sequence of step calls from the reset state   *)
(* with a throttle in [0, 1] and any incline, v is not negative.           *)
C13_VelocityNonNegative ==
    (op = "step" /\ 0 <= throttle /\ throttle <= Lit(1, 0)) => model.v >= 0

(* C14: in every state that reset and step calls can reach, each of the   *)
(* parameters a_0, a_1, a_2, GR, r_e, J_e, m, g, c_a, c_r1, c, F_max and   *)
(* sample_time has the value __init__ gave it, and sample_time is          *)
(* positive.                                                               *)
C14_ParametersKeepValues ==
    /\ \A p \in Parameters : model[p] = Vehicle[p]
    /\ DOMAIN model = DOMAIN Vehicle
    /\ model.sample_time > 0

(* a reset and then a step, which moved the state off its defaults, have  *)
(* both been made after earlier steps                                      *)
C14_Witness ==
    /\ op = "step" /\ calls >= 2
    /\ model.x > 0 /\ model.x < Lit(0, 600)
    /\ model.w_e_dot # 0

TorqueCurve(st) ==
    st.a_0 + Mul(st.a_1, st.w_e) + Mul(st.a_2, Mul(st.w_e, st.w_e))

(* C16: a step call with a throttle below 0 or above 1 is not rejected:   *)
(* it runs to its end without signalling anything, takes                   *)
(* T_e = throttle*(a_0 + a_1*w_e + a_2*w_e^2) with the throttle as passed, *)
(* and updates all five fields by the same formulas as any other call.     *)
C16_ThrottleOutOfRangeAccepted ==
    [][(calls' = calls + 1 /\ (throttle' < 0 \/ throttle' > Lit(1, 0))) =>
         /\ op' = "step"
         /\ err' = "none"
         /\ model'.w_e_dot
              = Div(Mul(throttle', TorqueCurve(model))
                      - Mul(Mul(model.GR, model.r_e), f_load(model, alpha')),
                    model.J_e)
         /\ model'.a = Div(F_x' - f_load(model, alpha'), model.m)
         /\ model'.w_e = model.w_e + Mul(model'.w_e_dot, model.sample_time)
         /\ model'.v = model.v + Mul(model'.a, model.sample_time)
         /\ model'.x = model.x + Mul(model'.v, model.sample_time)
                               - HalfADt2(model')]_vars

(* a step with throttle 1.5 that gave the engine a larger acceleration    *)
(* than any throttle up to 1 gives it from these states                    *)
C16_Witness ==
    /\ op = "step" /\ err = "none"
    /\ throttle > Lit(1, 0)
    /\ model.w_e_dot > Lit(50, 0)

(* a pass of the slope loop *)
DriveStepped == pc = "drive" /\ i' = i + 1

(* C17: pass i of the slope loop records the position and the velocity    *)
(* held after exactly i steps since the reset as sample i (sample 0 is     *)
(* x = 0, v = 5), and then steps with throttle sample i and with the       *)
(* incline chosen from that position: atan(3/60) when x < 60, atan(0.1)    *)
(* when 60 <= x < 150, and 0 when x >= 150.                                *)
C17_InclineFromPositionBeforeStep ==
    [][DriveStepped =>
         /\ calls = i /\ calls' = i + 1
         /\ Len(x_data') = i + 1 /\ Len(v1_data') = i + 1
         /\ At(x_data', i) = model.x
         /\ At(v1_data', i) = model.v
         /\ i = 0 => (At(x_data', 0) = 0 /\ At(v1_data', 0) = Lit(5, 0))
         /\ throttle' = At(t_data, i)
         /\ model.x < Lit(60, 0) =>
               alpha' = ArcTan(Div(Lit(3, 0), Lit(60, 0)))
         /\ (Lit(60, 0) <= model.x /\ model.x < Lit(150, 0)) =>
               alpha' = ArcTan(Lit(0, 1000))
         /\ model.x >= Lit(150, 0) => alpha' = 0]_vars

(* the first pass that found the position at or beyond 60 m: it stepped   *)
(* with atan(0.1), and the sample before it was still below 60 m           *)
C17_Witness ==
    /\ pc = "drive" /\ op = "step" /\ i >= 2
    /\ calls = i
    /\ At(x_data, i - 2) < Lit(60, 0)
    /\ At(x_data, i - 1) >= Lit(60, 0)
    /\ alpha = alpha2
    /\ model.x > At(x_data, i - 1)

(* the place of an incline in the order of the phases of the slope run *)
PhaseOf(al) == IF al = alpha1 THEN 1 ELSE IF al = alpha2 THEN 2 ELSE 3

(* C18: in the slope run no recorded position is below the one recorded   *)
(* before it, and the inclines passed to step come in the order atan(3/60),*)
(* atan(0.1), 0: a step never uses an incline of an earlier phase than the *)
(* step before it.                                                         *)
C18_PhasesInOrder ==
    [][DriveStepped =>
         /\ model'.x >= model.x
         /\ i >= 1 =>
               /\ At(x_data', i) >= At(x_data', i - 1)
               /\ PhaseOf(alpha') >= PhaseOf(alpha)]_vars

(* the run has gone through the three phases: the last step used incline  *)
(* 0 from a recorded position at or beyond 150 m                           *)
C18_Witness ==
    /\ pc = "drive" /\ op = "step" /\ i >= 2
    /\ alpha = 0
    /\ At(x_data, i - 1) >= Lit(150, 0)
    /\ At(x_data, i - 2) < Lit(150, 0)
    /\ At(x_data, 0) = 0

(* C19: with c = F_max, a step from a state with v # 0 takes a tire force *)
(* with -F_max < F_x <= F_max, and stores an acceleration a with           *)
(* (-F_max - F_load)/m < a <= (F_max - F_load)/m.                          *)
C19_TireForceBounded ==
    [][(Stepped /\ model.v # 0 /\ model.c = model.F_max) =>
         /\ -model.F_max < F_x'
         /\ F_x' <= model.F_max
         /\ model'.a <= Div(model.F_max - f_load(model, alpha'), model.m)
         /\ model'.a > Div(-model.F_max - f_load(model, alpha'), model.m)
      ]_vars

(* a step whose tire force came within 10 N of -F_max *)
C19_Witness ==
    /\ op = "step"
    /\ s.kind = "finite"
    /\ model.c = model.F_max
    /\ F_x < 0
    /\ F_x + model.F_max <= Lit(10, 0)
    /\ model.a < 0

====
